---------------------------- MODULE Spec2Model ----------------------------
(* Labor Distribution Summary App (salary_app.py): the upload handler and  *)
(* process_dataframe, as a state machine over one uploaded table.          *)
(*                                                                         *)
(* Text is a sequence of one-character strings; a cell of a DataFrame is a *)
(* record [kind, text, num]: a Python str, the missing value NaN (what     *)
(* read_csv yields for an empty field, a float nan), Python None, or a     *)
(* float (num holds the amount in cents: the modelled amounts have at most *)
(* two fractional digits, for which the binary sums render exactly).       *)
EXTENDS Integers, Sequences, FiniteSets, TLC

VARIABLES uploaded_file, pc, raw_df, processed_df, salary_table,
          benefit_table, failed, shown, csv_data, processed_output

vars == <<uploaded_file, pc, raw_df, processed_df, salary_table,
          benefit_table, failed, shown, csv_data, processed_output>>

(* Rows per uploaded table. *)
MaxRows == 2

---------------------------------------------------------------------------
(* Characters and Python string operations                                 *)

Ascii ==
    << " ", "!", "\"", "#", "$", "%", "&", "'", "(", ")", "*", "+", ",", "-", ".", "/",
       "0", "1", "2", "3", "4", "5", "6", "7", "8", "9", ":", ";", "<", "=", ">", "?",
       "@", "A", "B", "C", "D", "E", "F", "G", "H", "I", "J", "K", "L", "M", "N", "O",
       "P", "Q", "R", "S", "T", "U", "V", "W", "X", "Y", "Z", "[", "\\", "]", "^", "_",
       "grave", "a", "b", "c", "d", "e", "f", "g", "h", "i", "j", "k", "l", "m", "n", "o",
       "p", "q", "r", "s", "t", "u", "v", "w", "x", "y", "z", "{", "|", "}", "~" >>

Range(s) == { s[i] : i \in DOMAIN s }

(* ord(c) - 31 for a printable ASCII character (the slot of the grave      *)
(* accent, which no modelled text holds, carries a name instead). *)
OrdTable == [ c \in Range(Ascii) |-> CHOOSE i \in DOMAIN Ascii : Ascii[i] = c ]

Ord(c) == OrdTable[c]

IsUpper(c) == Ord(c) >= Ord("A") /\ Ord(c) <= Ord("Z")

Lower(c) == IF IsUpper(c) THEN Ascii[Ord(c) + (Ord("a") - Ord("A"))] ELSE c

LowerText(s) == [ i \in DOMAIN s |-> Lower(s[i]) ]

IsDigit(c) == Ord(c) >= Ord("0") /\ Ord(c) <= Ord("9")

DigitVal(c) == Ord(c) - Ord("0")

DigitChar(d) == Ascii[Ord("0") + d]

StartsWith(s, p) == Len(s) >= Len(p) /\ SubSeq(s, 1, Len(p)) = p

(* s.lstrip(ch) *)
RECURSIVE LStrip(_, _)
LStrip(s, ch) ==
    IF s # <<>> /\ Head(s) = ch THEN LStrip(Tail(s), ch) ELSE s

(* s.strip(" "): the spaces float() ignores around a numeral *)
RECURSIVE StripSpaces(_)
StripSpaces(s) ==
    IF s # <<>> /\ Head(s) = " " THEN StripSpaces(Tail(s))
    ELSE IF s # <<>> /\ s[Len(s)] = " " THEN StripSpaces(SubSeq(s, 1, Len(s) - 1))
    ELSE s

(* s.replace(ch, "") for a one-character ch *)
Remove(s, ch) == SelectSeq(s, LAMBDA c : c # ch)

(* re.search(pat, s, re.IGNORECASE) for a literal pattern of ASCII letters *)
ContainsNoCase(s, pat) ==
    \E i \in 1..(Len(s) - Len(pat) + 1) :
        LowerText(SubSeq(s, i, i + Len(pat) - 1)) = LowerText(pat)

(* The ordering of Python str values (by code point): a < b *)
RECURSIVE TextLess(_, _)
TextLess(a, b) ==
    IF b = <<>> THEN FALSE
    ELSE IF a = <<>> THEN TRUE
    ELSE IF Head(a) = Head(b) THEN TextLess(Tail(a), Tail(b))
    ELSE Ord(Head(a)) < Ord(Head(b))

---------------------------------------------------------------------------
(* Cells                                                                   *)

Str(t) == [kind |-> "str", text |-> t, num |-> 0]

NaN == [kind |-> "nan", text |-> <<>>, num |-> 0]

None == [kind |-> "none", text |-> <<>>, num |-> 0]

Num(c) == [kind |-> "float", text |-> <<>>, num |-> c]

IsNull(cell) == cell.kind \in {"nan", "none"}

(* str(x) of a cell value, as Series.astype(str) and str() give it *)
PyStr(cell) ==
    CASE cell.kind = "str"  -> cell.text
      [] cell.kind = "nan"  -> <<"n", "a", "n">>
      [] cell.kind = "none" -> <<"N", "o", "n", "e">>

(* Series.fillna("") on one cell *)
FillNa(cell) == IF IsNull(cell) THEN Str(<<>>) ELSE cell

---------------------------------------------------------------------------
(* DataFrames: an ordered column list and rows that keep their index label *)
(* (a filtered frame keeps the labels of the rows it kept).                *)

HasColumn(df, col) == col \in Range(df.columns)

(* df[name] = values (one cell per row): in place when the column exists, *)
(* else appended                                                          *)
SetColumn(df, name, values) ==
    [ columns |-> IF HasColumn(df, name) THEN df.columns
                  ELSE Append(df.columns, name),
      rows    |-> [ i \in DOMAIN df.rows |->
                      [ idx   |-> df.rows[i].idx,
                        cells |-> [ c \in Range(df.columns) \cup {name} |->
                                      IF c = name THEN values[i]
                                      ELSE df.rows[i].cells[c] ] ] ] ]

(* df[cols]: the listed columns, in the listed order *)
SelectColumns(df, cols) ==
    [ columns |-> cols,
      rows    |-> [ i \in DOMAIN df.rows |->
                      [ idx   |-> df.rows[i].idx,
                        cells |-> [ c \in Range(cols) |-> df.rows[i].cells[c] ] ] ] ]

(* df.drop(columns=...) *)
DropColumns(df, dropped) ==
    SelectColumns(df, SelectSeq(df.columns, LAMBDA c : c \notin dropped))

(* df[mask]: the rows a boolean mask keeps, in their order *)
FilterRows(df, mask) ==
    LET kept == SelectSeq([ i \in DOMAIN df.rows |-> i ], LAMBDA i : mask[i])
    IN  [ columns |-> df.columns,
          rows    |-> [ k \in DOMAIN kept |-> df.rows[kept[k]] ] ]

EmptyFrame == [ columns |-> <<>>, rows |-> <<>> ]

---------------------------------------------------------------------------
(* process_dataframe, stage 1: total rows                                  *)

TotalWord == <<"T", "o", "t", "a", "l">>

total_check_cols ==
    << "Fiscal Year & Fiscal Period (Combined)",
       "Funds Center Name",
       "Funds Center",
       "Employment Status & Description (Combined)" >>

(* the scan without case=False: only the spelling "Total" is found *)
CellHasTotal_cased(cell) ==
    \E i \in 1..(Len(PyStr(cell)) - Len(TotalWord) + 1) :
        SubSeq(PyStr(cell), i, i + Len(TotalWord) - 1) = TotalWord

(* col.astype(str).str.contains("Total", case=False, na=False) on one cell *)
CellHasTotal(cell) == ContainsNoCase(PyStr(cell), TotalWord)

(* the mask built from the total-indicator columns that are present *)
CheckColsMask(df, row) ==
    \E k \in DOMAIN total_check_cols :
        /\ HasColumn(df, total_check_cols[k])
        /\ CellHasTotal(row.cells[total_check_cols[k]])

(* the mask of the scan over every column *)
GlobalTotalMask(df, row) ==
    \E c \in Range(df.columns) : CellHasTotal(row.cells[c])

total_mask(df) ==
    [ i \in DOMAIN df.rows |->
        CheckColsMask(df, df.rows[i]) \/ GlobalTotalMask(df, df.rows[i]) ]

FilterTotals(df) ==
    FilterRows(df, [ i \in DOMAIN df.rows |-> ~ total_mask(df)[i] ])

---------------------------------------------------------------------------
(* stage 2: Full Name                                                      *)

first_name_col == "First Name"

last_name_col == "Last Name"

(* the concatenation with the result stripped of its outer spaces *)
ConcatName_trimmed(row) ==
    Str(StripSpaces(FillNa(row.cells[first_name_col]).text \o <<" ">>
                    \o FillNa(row.cells[last_name_col]).text))

(* fillna("") + " " + fillna("") on one row *)
ConcatName(row) ==
    Str(FillNa(row.cells[first_name_col]).text \o <<" ">>
        \o FillNa(row.cells[last_name_col]).text)

(* the second branch taken whenever the name parts are not both there: an *)
(* existing Full Name column is blanked                                    *)
AddFullName_blank(df) ==
    IF HasColumn(df, first_name_col) /\ HasColumn(df, last_name_col)
    THEN DropColumns(SetColumn(df, "Full Name",
                               [ i \in DOMAIN df.rows |-> ConcatName(df.rows[i]) ]),
                     {first_name_col, last_name_col})
    ELSE SetColumn(df, "Full Name", [ i \in DOMAIN df.rows |-> Str(<<>>) ])

AddFullName(df) ==
    IF HasColumn(df, first_name_col) /\ HasColumn(df, last_name_col)
    THEN DropColumns(SetColumn(df, "Full Name",
                               [ i \in DOMAIN df.rows |-> ConcatName(df.rows[i]) ]),
                     {first_name_col, last_name_col})
    ELSE IF ~ HasColumn(df, "Full Name")
    THEN SetColumn(df, "Full Name", [ i \in DOMAIN df.rows |-> Str(<<>>) ])
    ELSE df

---------------------------------------------------------------------------
(* stage 3: Payment Type                                                   *)

Salary == <<"S", "a", "l", "a", "r", "y">>

Benefit == <<"B", "e", "n", "e", "f", "i", "t">>

Other == <<"O", "t", "h", "e", "r">>

(* the classifier without lstrip("0") *)
payment_type_nostrip(gl_account) ==
    LET account == IF gl_account.kind /= "none" THEN PyStr(gl_account) ELSE <<>>
    IN  IF StartsWith(account, <<"5", "1">>) THEN Salary
        ELSE IF StartsWith(account, <<"5", "2">>) THEN Benefit
        ELSE Other

payment_type(gl_account) ==
    LET account == IF gl_account.kind # "none"
                   THEN LStrip(PyStr(gl_account), "0") ELSE <<>>
    IN  IF StartsWith(account, <<"5", "1">>) THEN Salary
        ELSE IF StartsWith(account, <<"5", "2">>) THEN Benefit
        ELSE Other

AddPaymentType(df) ==
    IF HasColumn(df, "Gl Account")
    THEN SetColumn(df, "Payment Type",
                   [ i \in DOMAIN df.rows |->
                       Str(payment_type(df.rows[i].cells["Gl Account"])) ])
    ELSE SetColumn(df, "Payment Type", [ i \in DOMAIN df.rows |-> Str(Other) ])

---------------------------------------------------------------------------
(* stage 4: column order                                                   *)

desired_columns ==
    << "Funds Center",
       "Funds Center Name",
       "Grant_Number",
       "Fund",
       "Person Id",
       "Pernr",
       "Full Name",
       "Employment Status & Description (Combined)",
       "Position Id",
       "Wage Type",
       "Symbolic Account",
       "Gl Account",
       "Org Unit Department",
       "Fiscal Year & Fiscal Period (Combined)",
       "In Period Date",
       "For Period Date",
       "Hours",
       "Payment Type",
       "Amount" >>

(* the desired columns that exist, taken in the order of the table *)
columns_in_df_table_order(df) ==
    SelectSeq(df.columns, LAMBDA c : c \in Range(desired_columns))

(* the desired columns that exist, then Full Name and Payment Type if the *)
(* list did not already give them                                          *)
columns_in_df(df) ==
    LET present == SelectSeq(desired_columns, LAMBDA c : HasColumn(df, c))
        ensure(cols, col) ==
            IF col \notin Range(cols) /\ HasColumn(df, col)
            THEN Append(cols, col) ELSE cols
    IN  ensure(ensure(present, "Full Name"), "Payment Type")

remaining_cols(df) ==
    SelectSeq(df.columns, LAMBDA c : c \notin Range(columns_in_df(df)))

Reorder(df) == SelectColumns(df, columns_in_df(df) \o remaining_cols(df))

---------------------------------------------------------------------------
(* stage 5: Amount_numeric                                                 *)

RECURSIVE DigitsValue(_)
DigitsValue(ds) ==
    IF ds = <<>> THEN 0
    ELSE 10 * DigitsValue(SubSeq(ds, 1, Len(ds) - 1)) + DigitVal(ds[Len(ds)])

(* float(text), for the forms [sign] digits [. digits] and [sign] nan; the *)
(* value is kept in cents (fractional digits past the second are dropped:   *)
(* no modelled amount has any). ok = FALSE is the ValueError.               *)
ParseFloat(text) ==
    LET t      == StripSpaces(text)
        signed == t # <<>> /\ Head(t) \in {"+", "-"}
        body   == IF signed THEN Tail(t) ELSE t
        sign   == IF signed /\ Head(t) = "-" THEN -1 ELSE 1
        dots   == { i \in DOMAIN body : body[i] = "." }
        dot    == IF dots = {} THEN Len(body) + 1 ELSE CHOOSE i \in dots : TRUE
        int    == SubSeq(body, 1, dot - 1)
        frac   == SubSeq(body, dot + 1, Len(body))
        frac2  == SubSeq(frac \o <<"0", "0">>, 1, 2)
    IN  IF LowerText(body) = <<"n", "a", "n">>
        THEN [ ok |-> TRUE, val |-> NaN ]
        ELSE IF /\ Cardinality(dots) <= 1
                /\ \A i \in DOMAIN body : body[i] = "." \/ IsDigit(body[i])
                /\ Len(int) + Len(frac) >= 1
        THEN [ ok |-> TRUE,
               val |-> Num(sign * (100 * DigitsValue(int) + DigitsValue(frac2))) ]
        ELSE [ ok |-> FALSE, val |-> NaN ]

(* astype(str), replace("$", ""), replace(",", ""), astype(float) on a cell *)
AmountOf(cell) == ParseFloat(Remove(Remove(PyStr(cell), "$"), ","))

(* a conversion that coerces what does not convert to nan and never raises *)
AmountCastFails_coerce(df) == FALSE

(* the cast raises when one cell of the column does not convert *)
AmountCastFails(df) ==
    /\ HasColumn(df, "Amount")
    /\ \E i \in DOMAIN df.rows : ~ AmountOf(df.rows[i].cells["Amount"]).ok

AddAmountNumeric(df) ==
    IF HasColumn(df, "Amount")
    THEN SetColumn(df, "Amount_numeric",
                   [ i \in DOMAIN df.rows |-> AmountOf(df.rows[i].cells["Amount"]).val ])
    ELSE SetColumn(df, "Amount_numeric", [ i \in DOMAIN df.rows |-> Num(0) ])

---------------------------------------------------------------------------
(* stage 6: the summaries                                                  *)

RECURSIVE Digits(_)
Digits(n) ==
    IF n < 10 THEN <<DigitChar(n)>>
    ELSE Digits(n \div 10) \o <<DigitChar(n % 10)>>

RECURSIVE GroupThousands(_)
GroupThousands(ds) ==
    IF Len(ds) <= 3 THEN ds
    ELSE GroupThousands(SubSeq(ds, 1, Len(ds) - 3)) \o <<",">>
         \o SubSeq(ds, Len(ds) - 2, Len(ds))

(* f"${x:,.2f}" of a float held in cents, or of nan *)
FormatCurrency(x) ==
    IF x.kind = "nan" THEN <<"$", "n", "a", "n">>
    ELSE LET a == IF x.num < 0 THEN -x.num ELSE x.num
         IN  <<"$">> \o (IF x.num < 0 THEN <<"-">> ELSE <<>>)
             \o GroupThousands(Digits(a \div 100)) \o <<".">>
             \o <<DigitChar((a % 100) \div 10), DigitChar(a % 10)>>

(* Series.sum() of a group: nan is skipped, the empty sum is 0.0 *)
RECURSIVE SumSkipNa(_)
SumSkipNa(cells) ==
    IF cells = <<>> THEN 0
    ELSE (IF Head(cells).kind = "float" THEN Head(cells).num ELSE 0)
         + SumSkipNa(Tail(cells))

(* the group keys in sorted order (groupby sorts its keys) *)
RECURSIVE SortTexts(_)
SortTexts(S) ==
    IF S = {} THEN <<>>
    ELSE LET m == CHOOSE x \in S : \A y \in S : ~ TextLess(y, x)
         IN  <<m>> \o SortTexts(S \ {m})

(* the keys in the order of their first appearance (groupby(sort=False)) *)
RECURSIVE FirstAppearance(_)
FirstAppearance(rows) ==
    IF rows = <<>> THEN <<>>
    ELSE LET rest == FirstAppearance(SubSeq(rows, 1, Len(rows) - 1))
             key  == rows[Len(rows)].cells["Full Name"]
         IN  IF IsNull(key) \/ key.text \in Range(rest) THEN rest
             ELSE Append(rest, key.text)

GroupKeys_appearance(df) == FirstAppearance(df.rows)

(* the keys of groupby("Full Name"): null keys are dropped (dropna) *)
GroupKeys(df) ==
    SortTexts({ df.rows[i].cells["Full Name"].text :
                  i \in { j \in DOMAIN df.rows :
                            ~ IsNull(df.rows[j].cells["Full Name"]) } })

(* df[df["Payment Type"] == kind].groupby("Full Name")["Amount_numeric"]    *)
(*   .sum().reset_index().rename(...), then the currency format             *)
Summary(df, kind, total_col) ==
    LET part == FilterRows(df, [ i \in DOMAIN df.rows |->
                                 df.rows[i].cells["Payment Type"] = Str(kind) ])
        keys == GroupKeys(part)
        group(k) == SelectSeq(part.rows,
                              LAMBDA row : row.cells["Full Name"] = Str(k))
        amounts(k) == [ i \in DOMAIN group(k) |->
                          group(k)[i].cells["Amount_numeric"] ]
    IN  [ columns |-> <<"Full Name", total_col>>,
          rows    |-> [ i \in DOMAIN keys |->
                          [ idx   |-> i - 1,
                            cells |-> [ c \in {"Full Name", total_col} |->
                                IF c = "Full Name" THEN Str(keys[i])
                                ELSE Str(FormatCurrency(
                                         Num(SumSkipNa(amounts(keys[i]))))) ] ] ] ]

---------------------------------------------------------------------------
(* process_dataframe: raised = TRUE is the exception of the float cast     *)

Shaped(df) == Reorder(AddPaymentType(AddFullName(FilterTotals(df))))

process_dataframe(df) ==
    LET shaped == Shaped(df)
        out    == AddAmountNumeric(shaped)
    IN  IF AmountCastFails(shaped)
        THEN [ raised |-> TRUE, df |-> EmptyFrame,
               salary_summary |-> EmptyFrame, benefit_summary |-> EmptyFrame ]
        ELSE [ raised |-> FALSE, df |-> out,
               salary_summary  |-> Summary(out, Salary, "Total Salary"),
               benefit_summary |-> Summary(out, Benefit, "Total Benefits") ]

---------------------------------------------------------------------------
(* The uploaded tables: column layouts with the cell values each column    *)
(* may hold, and up to MaxRows rows. read_csv labels the rows 0, 1, ...    *)

EmptyRow == <<>>

RECURSIVE RowSet(_, _)
RowSet(cols, vocab) ==
    IF cols = <<>> THEN { EmptyRow }
    ELSE { (Head(cols) :> v) @@ r : v \in vocab[Head(cols)],
                                     r \in RowSet(Tail(cols), vocab) }

OneRowTables(cols, vocab) ==
    { [ columns |-> cols, rows |-> << [ idx |-> 0, cells |-> r ] >> ] :
      r \in RowSet(cols, vocab) }

TablesOver(cols, vocab) ==
    { [ columns |-> cols,
        rows    |-> [ i \in DOMAIN rs |-> [ idx |-> i - 1, cells |-> rs[i] ] ] ] :
      rs \in UNION { [1..k -> RowSet(cols, vocab)] : k \in 0..MaxRows } }

(* files with total rows, in an indicator column and in another one *)
TotalsTables ==
    TablesOver(<<"Funds Center Name", "Notes", "Full Name", "Gl Account", "Amount">>,
        [ x \in {"Funds Center Name", "Notes", "Full Name", "Gl Account", "Amount"} |->
            CASE x = "Funds Center Name" -> { Str(<<"O", "p", "s">>), Str(<<"G", "r", "a", "n", "d", " ", "T", "o", "t", "a", "l">>) }
              [] x = "Notes"      -> { Str(<<"o", "k">>), Str(<<"s", "u", "b", "t", "o", "t", "a", "l">>) }
              [] x = "Full Name"  -> { Str(<<"A", "l">>) }
              [] x = "Gl Account" -> { Str(<<"5", "1", "0", "0", "0">>) }
              [] x = "Amount"     -> { Str(<<"5", ".", "0", "0">>), Str(<<"N", "/", "A">>) } ])

(* files with first and last names, some of them missing *)
NamesTables ==
    TablesOver(<<"First Name", "Last Name", "Gl Account", "Amount">>,
        [ x \in {"First Name", "Last Name", "Gl Account", "Amount"} |->
            CASE x = "First Name" -> { Str(<<"J", "a", "n", "e">>), NaN }
              [] x = "Last Name"  -> { Str(<<"D", "o", "e">>), NaN }
              [] x = "Gl Account" -> { Str(<<"5", "1", "0", "0", "0">>) }
              [] x = "Amount"     -> { Str(<<"$", "1", ",", "0", "0", "0", ".", "0", "0">>) } ])

(* files with salary and benefit lines of two people *)
PayTables ==
    TablesOver(<<"First Name", "Last Name", "Gl Account", "Amount">>,
        [ x \in {"First Name", "Last Name", "Gl Account", "Amount"} |->
            CASE x = "First Name" -> { Str(<<"J", "a", "n", "e">>) }
              [] x = "Last Name"  -> { Str(<<"D", "o", "e">>), Str(<<"R", "o", "e">>) }
              [] x = "Gl Account" -> { Str(<<"5", "1", "0", "0", "0">>), Str(<<"0", "0", "5", "2", "0", "1", "0">>) }
              [] x = "Amount"     -> { Str(<<"$", "1", ",", "0", "0", "0", ".", "0", "0">>), Str(<<"2", "3", "4", ".", "5", "6">>) } ])

(* files that already have a Full Name column, and one of the name parts *)
FullNameTables ==
    TablesOver(<<"Full Name", "First Name", "Gl Account", "Amount">>,
        [ x \in {"Full Name", "First Name", "Gl Account", "Amount"} |->
            CASE x = "Full Name"  -> { Str(<<"J", "a", "n", "e", " ", "D", "o", "e">>), Str(<<"A", "l">>), NaN }
              [] x = "First Name" -> { Str(<<"J", "a", "n", "e">>) }
              [] x = "Gl Account" -> { Str(<<"5", "1", "0", "0", "0">>), Str(<<"6", "0", "0", "0", "0">>) }
              [] x = "Amount"     -> { Str(<<"1", "0">>) } ])

(* files with a Full Name column and both name parts *)
AllNamesTables ==
    TablesOver(<<"Full Name", "Last Name", "First Name">>,
        [ x \in {"Full Name", "Last Name", "First Name"} |->
            CASE x = "Full Name"  -> { Str(<<"A", "l">>), NaN }
              [] x = "Last Name"  -> { Str(<<"D", "o", "e">>), NaN }
              [] x = "First Name" -> { Str(<<"J", "a", "n", "e">>) } ])

(* files with the account codes, and a Payment Type column of their own *)
AccountTables ==
    TablesOver(<<"Gl Account", "Payment Type">>,
        [ x \in {"Gl Account", "Payment Type"} |->
            CASE x = "Gl Account" ->
                    { Str(<<"5", "1", "0", "0", "0">>), Str(<<"0", "0", "5", "1", "0", "0", "0">>), Str(<<"5", "2", "0", "1", "0">>), Str(<<"0", "0", "5", "2", "0", "1", "0">>),
                      Str(<<"6", "0", "0", "0", "0">>), Str(<<"0", "6", "5", "1", "0", "0", "0">>), NaN, None }
              [] x = "Payment Type" -> { Str(<<"S", "a", "l", "a", "r", "y">>) } ])

(* files with the amount forms *)
AmountTables ==
    TablesOver(<<"Full Name", "Gl Account", "Amount">>,
        [ x \in {"Full Name", "Gl Account", "Amount"} |->
            CASE x = "Full Name"  -> { Str(<<"A", "l">>) }
              [] x = "Gl Account" -> { Str(<<"5", "1", "0", "0", "0">>), Str(<<"5", "2", "0", "1", "0">>) }
              [] x = "Amount"     ->
                    { Str(<<"$", "1", ",", "0", "0", "0", ".", "0", "0">>), Str(<<"-", "2", "3", "4", ".", "5", "6">>), Str(<<"N", "/", "A">>), NaN, None } ])

(* Columns per layout of the files with reduced and extended column sets. *)
MaxCols == 3

LayoutColumns ==
    { "Notes", "Amount", "Fund", "Gl Account", "Full Name", "First Name",
      "Last Name", "Cost Code" }

(* every ordering of one to MaxCols distinct columns (read_csv raises on a *)
(* file with no column)                                                    *)
Layouts ==
    { cols \in UNION { [1..k -> LayoutColumns] : k \in 1..MaxCols } :
        \A i, j \in DOMAIN cols : i /= j => cols[i] /= cols[j] }

LayoutVocab ==
    [ x \in LayoutColumns \cup {"Amount_numeric"} |->
        CASE x = "Notes"      -> { Str(<<"o", "k">>) }
          [] x = "Amount"     -> { Str(<<"5", ".", "0", "0">>) }
          [] x = "Fund"       -> { Str(<<"F", "1">>) }
          [] x = "Gl Account" -> { Str(<<"5", "1", "0", "0", "0">>) }
          [] x = "Full Name"  -> { Str(<<"A", "l">>) }
          [] x = "First Name" -> { Str(<<"J", "a", "n", "e">>) }
          [] x = "Last Name"  -> { Str(<<"D", "o", "e">>) }
          [] x = "Cost Code"  -> { Str(<<"C", "9">>) }
          [] x = "Amount_numeric" -> { Str(<<"x">>) } ]

(* one-row files with reduced and extended column sets, and one whose      *)
(* column has the name of the numeric helper column                        *)
LayoutTables ==
    UNION { OneRowTables(cols, LayoutVocab) :
            cols \in Layouts \cup { <<"Amount_numeric", "Amount", "Notes">> } }

Uploads ==
    TotalsTables \cup NamesTables \cup PayTables \cup FullNameTables
    \cup AllNamesTables
    \cup AccountTables \cup AmountTables \cup LayoutTables

---------------------------------------------------------------------------
(* The upload handler: one run of the script on an uploaded file           *)

Init ==
    /\ uploaded_file \in Uploads
    /\ pc = "read_csv"
    /\ raw_df = EmptyFrame
    /\ processed_df = EmptyFrame
    /\ salary_table = EmptyFrame
    /\ benefit_table = EmptyFrame
    /\ failed = "no"
    /\ shown = <<>>
    /\ csv_data = <<>>
    /\ processed_output = EmptyFrame

(* raw_df = pd.read_csv(...): the decoded table, or the decoder raises on  *)
(* bytes that are not a UTF-16LE tab-delimited table, which ends the run   *)
ReadCsv ==
    /\ pc = "read_csv"
    /\ \E decodes \in BOOLEAN :
         IF decodes
         THEN /\ raw_df' = uploaded_file
              /\ pc' = "process"
              /\ UNCHANGED failed
         ELSE /\ failed' = "read_csv"
              /\ pc' = "aborted"
              /\ UNCHANGED raw_df
    /\ UNCHANGED <<uploaded_file, processed_df, salary_table, benefit_table,
                   shown, csv_data, processed_output>>

(* the call with its exception swallowed: the script goes on to its output *)
(* steps with the tables it has                                            *)
ProcessDataframe_swallow ==
    /\ pc = "process"
    /\ LET r == process_dataframe(raw_df)
       IN  /\ failed' = IF r.raised THEN "process_dataframe" ELSE failed
           /\ processed_df' = r.df
           /\ salary_table' = r.salary_summary
           /\ benefit_table' = r.benefit_summary
           /\ pc' = "show_processed"
    /\ UNCHANGED <<uploaded_file, raw_df, shown, csv_data, processed_output>>

(* processed_df, salary_table, benefit_table = process_dataframe(raw_df);  *)
(* its exception is not caught and ends the run                            *)
ProcessDataframe ==
    /\ pc = "process"
    /\ LET r == process_dataframe(raw_df)
       IN  IF r.raised
           THEN /\ failed' = "process_dataframe"
                /\ pc' = "aborted"
                /\ UNCHANGED <<processed_df, salary_table, benefit_table>>
           ELSE /\ processed_df' = r.df
                /\ salary_table' = r.salary_summary
                /\ benefit_table' = r.benefit_summary
                /\ pc' = "show_processed"
                /\ UNCHANGED failed
    /\ UNCHANGED <<uploaded_file, raw_df, shown, csv_data, processed_output>>

ShowProcessed ==
    /\ pc = "show_processed"
    /\ shown' = Append(shown, "Processed Data (first 10 rows)")
    /\ pc' = "show_salary"
    /\ UNCHANGED <<uploaded_file, raw_df, processed_df, salary_table,
                   benefit_table, failed, csv_data, processed_output>>

ShowSalary ==
    /\ pc = "show_salary"
    /\ shown' = Append(shown, "Total Salary by Individual")
    /\ pc' = "show_benefit"
    /\ UNCHANGED <<uploaded_file, raw_df, processed_df, salary_table,
                   benefit_table, failed, csv_data, processed_output>>

ShowBenefit ==
    /\ pc = "show_benefit"
    /\ shown' = Append(shown, "Total Benefits by Individual")
    /\ pc' = "download_summary"
    /\ UNCHANGED <<uploaded_file, raw_df, processed_df, salary_table,
                   benefit_table, failed, csv_data, processed_output>>

(* the rows csv.writer is given: a header and one row per summary entry *)
SummaryRows(table, total_col) ==
    << <<<<"F", "u", "l", "l", " ", "N", "a", "m", "e">>, IF total_col = "Total Salary" THEN <<"T", "o", "t", "a", "l", " ", "S", "a", "l", "a", "r", "y">>
                      ELSE <<"T", "o", "t", "a", "l", " ", "B", "e", "n", "e", "f", "i", "t", "s">>>> >>
    \o [ i \in DOMAIN table.rows |->
           << table.rows[i].cells["Full Name"].text,
              table.rows[i].cells[total_col].text >> ]

DownloadSummary ==
    /\ pc = "download_summary"
    /\ csv_data' = SummaryRows(salary_table, "Total Salary") \o << <<>> >>
                   \o SummaryRows(benefit_table, "Total Benefits")
    /\ shown' = Append(shown, "Download Summary CSV")
    /\ pc' = "download_processed"
    /\ UNCHANGED <<uploaded_file, raw_df, processed_df, salary_table,
                   benefit_table, failed, processed_output>>

DownloadProcessed ==
    /\ pc = "download_processed"
    /\ processed_output' = DropColumns(processed_df, {"Amount_numeric"})
    /\ shown' = Append(shown, "Download Processed Data")
    /\ pc' = "done"
    /\ UNCHANGED <<uploaded_file, raw_df, processed_df, salary_table,
                   benefit_table, failed, csv_data>>

Next ==
    \/ ReadCsv
    \/ ProcessDataframe
    \/ ShowProcessed
    \/ ShowSalary
    \/ ShowBenefit
    \/ DownloadSummary
    \/ DownloadProcessed

Spec == Init /\ [][Next]_vars

---------------------------------------------------------------------------
(* Properties                                                              *)

(* process_dataframe has been called *)
Ran == pc \notin {"read_csv", "process"} /\ failed /= "read_csv"

(* process_dataframe has returned its three tables *)
Returned == Ran /\ failed = "no"

(* the row of the uploaded table a processed row came from *)
RawOf(row) == raw_df.rows[row.idx + 1]

(* a text with the letters t, o, t, a, l in a row, each in either case *)
HasTotalText(s) ==
    \E i \in 1..(Len(s) - 4) :
        /\ s[i] \in {"T", "t"}
        /\ s[i + 1] \in {"O", "o"}
        /\ s[i + 2] \in {"T", "t"}
        /\ s[i + 3] \in {"A", "a"}
        /\ s[i + 4] \in {"L", "l"}

IsTotalRow(df, row) ==
    \E c \in Range(df.columns) :
        row.cells[c].kind = "str" /\ HasTotalText(row.cells[c].text)

WithoutRow(df, i) ==
    [ columns |-> df.columns,
      rows    |-> SubSeq(df.rows, 1, i - 1) \o SubSeq(df.rows, i + 1, Len(df.rows)) ]

(* C1: a row of the uploaded table with a cell that contains "Total" in any *)
(* letter case is no row of the cleaned table, and the three outputs (and   *)
(* whether the run fails) are those of the table without that row, so its   *)
(* amount is part of no total.                                              *)
C1_TotalRowsAbsent ==
    Ran =>
      \A i \in DOMAIN raw_df.rows :
        IsTotalRow(raw_df, raw_df.rows[i]) =>
          LET r == process_dataframe(WithoutRow(raw_df, i))
          IN  /\ r.raised = (failed = "process_dataframe")
              /\ failed = "no" =>
                   /\ \A k \in DOMAIN processed_df.rows :
                        processed_df.rows[k].idx /= raw_df.rows[i].idx
                   /\ r.df = processed_df
                   /\ r.salary_summary = salary_table
                   /\ r.benefit_summary = benefit_table

(* a lower-case "subtotal" in a column that is no total indicator, in a row *)
(* whose amount would not convert, beside a salary row that is summed       *)
C1_Witness ==
    /\ pc = "done"
    /\ HasColumn(raw_df, "Notes")
    /\ \E i \in DOMAIN raw_df.rows :
         /\ raw_df.rows[i].cells["Notes"] = Str(<<"s", "u", "b", "t", "o", "t", "a", "l">>)
         /\ raw_df.rows[i].cells["Funds Center Name"] = Str(<<"O", "p", "s">>)
         /\ raw_df.rows[i].cells["Amount"] = Str(<<"N", "/", "A">>)
    /\ Len(processed_df.rows) = 1
    /\ Len(salary_table.rows) = 1

(* the type the claim gives a code: after any number of leading "0", "51"   *)
(* is Salary and "52" is Benefit; everything else, and a null, is Other     *)
ZerosThen(s, d1, d2) ==
    \E k \in 0..Len(s) :
        /\ \A j \in 1..k : s[j] = "0"
        /\ Len(s) >= k + 2
        /\ s[k + 1] = d1
        /\ s[k + 2] = d2

ClaimedType(cell) ==
    IF cell.kind = "str" /\ ZerosThen(cell.text, "5", "1") THEN Salary
    ELSE IF cell.kind = "str" /\ ZerosThen(cell.text, "5", "2") THEN Benefit
    ELSE Other

ClaimedExamples ==
    { <<Str(<<"5", "1", "0", "0", "0">>), Salary>>, <<Str(<<"0", "0", "5", "1", "0", "0", "0">>), Salary>>,
      <<Str(<<"5", "2", "0", "1", "0">>), Benefit>>, <<Str(<<"0", "0", "5", "2", "0", "1", "0">>), Benefit>>,
      <<Str(<<"6", "0", "0", "0", "0">>), Other>>, <<Str(<<"0", "6", "5", "1", "0", "0", "0">>), Other>>,
      <<NaN, Other>>, <<None, Other>> }

(* C2: the Payment Type of every row of the cleaned table is Salary, Benefit *)
(* or Other, decided by the Gl Account cell of the row alone (zeros         *)
(* stripped, then the prefix 51 or 52), as in the table of examples; every  *)
(* row is Other when the table has no Gl Account column.                    *)
C2_PaymentTypeByAccount ==
    Returned =>
      \A k \in DOMAIN processed_df.rows :
        LET row == processed_df.rows[k]
            pt  == row.cells["Payment Type"]
        IN  /\ pt \in { Str(Salary), Str(Benefit), Str(Other) }
            /\ IF HasColumn(raw_df, "Gl Account")
               THEN /\ pt = Str(ClaimedType(RawOf(row).cells["Gl Account"]))
                    /\ \A e \in ClaimedExamples :
                         RawOf(row).cells["Gl Account"] = e[1] => pt = Str(e[2])
               ELSE pt = Str(Other)

C2_Witness ==
    /\ pc = "done"
    /\ HasColumn(raw_df, "Gl Account")
    /\ \E j, k \in DOMAIN processed_df.rows :
         /\ RawOf(processed_df.rows[j]).cells["Gl Account"] = Str(<<"0", "0", "5", "1", "0", "0", "0">>)
         /\ processed_df.rows[j].cells["Payment Type"] = Str(Salary)
         /\ RawOf(processed_df.rows[k]).cells["Gl Account"] = Str(<<"0", "6", "5", "1", "0", "0", "0">>)
         /\ processed_df.rows[k].cells["Payment Type"] = Str(Other)

(* the Amount text with "$" and "," removed *)
AmountText(cell) == SelectSeq(cell.text, LAMBDA c : c \notin {"$", ","})

Unsigned(s) == IF s /= <<>> /\ s[1] \in {"+", "-"} THEN Tail(s) ELSE s

(* a decimal numeral: an optional sign, digits, at most one point *)
IsDecimalText(s) ==
    LET b == Unsigned(s)
    IN  /\ \A i \in DOMAIN b :
             b[i] \in {"0", "1", "2", "3", "4", "5", "6", "7", "8", "9", "."}
        /\ \E i \in DOMAIN b : b[i] /= "."
        /\ \A i, j \in DOMAIN b : (b[i] = "." /\ b[j] = ".") => i = j

IsNanText(s) ==
    LET b == Unsigned(s)
    IN  /\ Len(b) = 3
        /\ b[1] \in {"n", "N"} /\ b[2] \in {"a", "A"} /\ b[3] \in {"n", "N"}

ParsesAsDecimal(cell) == cell.kind = "str" /\ IsDecimalText(AmountText(cell))

Surviving(i) == ~ IsTotalRow(raw_df, raw_df.rows[i])

Rejected(cell) ==
    \/ cell.kind = "none"
    \/ /\ cell.kind = "str"
       /\ ~ IsDecimalText(AmountText(cell))
       /\ ~ IsNanText(AmountText(cell))

C4_NoOutputOnFailure ==
    failed /= "no" =>
      /\ pc = "aborted"
      /\ shown = <<>>
      /\ csv_data = <<>>
      /\ processed_output = EmptyFrame

C4_Witness == failed = "process_dataframe" /\ Len(raw_df.rows) = 2

(* C5: the Full Name of every row of the cleaned table and of the two      *)
(* summaries is a string, never null, whatever columns the table has.      *)
C5_FullNameNeverNull ==
    Returned =>
      \A df \in {processed_df, salary_table, benefit_table} :
        \A k \in DOMAIN df.rows : df.rows[k].cells["Full Name"].kind = "str"

(* a name part as the claim reads it: a null part is the empty string *)
NamePart(cell) == IF cell.kind = "str" THEN cell.text ELSE <<>>

(* C6: with First Name and Last Name columns, the Full Name of every row of *)
(* the cleaned table is first, a space, last (a null part empty, nothing    *)
(* trimmed), and neither name column is a column of the cleaned table.      *)
C6_FullNameConcat ==
    (Returned /\ HasColumn(raw_df, "First Name") /\ HasColumn(raw_df, "Last Name")) =>
      /\ "First Name" \notin Range(processed_df.columns)
      /\ "Last Name" \notin Range(processed_df.columns)
      /\ \A k \in DOMAIN processed_df.rows :
           LET row == processed_df.rows[k]
           IN  /\ DOMAIN row.cells = Range(processed_df.columns)
               /\ row.cells["Full Name"] =
                    Str(NamePart(RawOf(row).cells["First Name"]) \o <<" ">>
                        \o NamePart(RawOf(row).cells["Last Name"]))

(* a null last name leaves the trailing space *)
C6_Witness ==
    /\ pc = "done"
    /\ HasColumn(raw_df, "First Name") /\ HasColumn(raw_df, "Last Name")
    /\ \E k \in DOMAIN processed_df.rows :
         /\ RawOf(processed_df.rows[k]).cells["Last Name"] = NaN
         /\ processed_df.rows[k].cells["Full Name"] = Str(<<"J", "a", "n", "e", " ">>)

FullNameKept ==
    \A k \in DOMAIN processed_df.rows :
      processed_df.rows[k].cells["Full Name"]
        = RawOf(processed_df.rows[k]).cells["Full Name"]

(* C7 as claimed: a table that has a Full Name column keeps it as it is,    *)
(* whatever other columns (First Name and Last Name among them) it has.     *)
C7_Original == (Returned /\ HasColumn(raw_df, "Full Name")) => FullNameKept

(* C7, amended: a table that has a Full Name column and not both of First   *)
(* Name and Last Name keeps every Full Name cell as it is (a null one too). *)
C7_Amended ==
    ( /\ Returned
      /\ HasColumn(raw_df, "Full Name")
      /\ ~ (HasColumn(raw_df, "First Name") /\ HasColumn(raw_df, "Last Name")) )
    => FullNameKept

(* a Full Name column beside a First Name column alone, with a null cell *)
C7_Witness ==
    /\ pc = "done"
    /\ HasColumn(raw_df, "Full Name")
    /\ HasColumn(raw_df, "First Name")
    /\ \E j, k \in DOMAIN processed_df.rows :
         /\ processed_df.rows[j].cells["Full Name"] = NaN
         /\ processed_df.rows[k].cells["Full Name"] = Str(<<"J", "a", "n", "e", " ", "D", "o", "e">>)

(* the sum of the numeric amounts of a sequence of rows *)
RECURSIVE NumericSum(_)
NumericSum(rows) ==
    IF rows = <<>> THEN 0
    ELSE LET a == Head(rows).cells["Amount_numeric"]
         IN  (IF a.kind = "float" THEN a.num ELSE 0) + NumericSum(Tail(rows))

RowsOfType(kind) ==
    SelectSeq(processed_df.rows, LAMBDA row : row.cells["Payment Type"] = Str(kind))

(* one summary row for each Full Name among the rows of the type, with the *)
(* sum of the amounts of exactly those rows                                *)
SummaryMatches(table, kind, total_col) ==
    LET rows == RowsOfType(kind)
    IN  /\ { table.rows[k].cells["Full Name"] : k \in DOMAIN table.rows }
             = { rows[i].cells["Full Name"] : i \in DOMAIN rows }
        /\ \A j, k \in DOMAIN table.rows :
             table.rows[j].cells["Full Name"] = table.rows[k].cells["Full Name"]
               => j = k
        /\ \A k \in DOMAIN table.rows :
             table.rows[k].cells[total_col] =
               Str(FormatCurrency(Num(NumericSum(
                   SelectSeq(rows, LAMBDA row :
                       row.cells["Full Name"] = table.rows[k].cells["Full Name"])))))

(* C8: each summary has exactly one row for each Full Name that occurs     *)
(* among the cleaned rows of its Payment Type, with the sum of the amounts *)
(* of exactly those rows; the rows of type Other are in neither summary    *)
(* and every surviving row is a row of the cleaned table.                  *)
C8_SummaryPerName ==
    Returned =>
      /\ SummaryMatches(salary_table, Salary, "Total Salary")
      /\ SummaryMatches(benefit_table, Benefit, "Total Benefits")
      /\ { processed_df.rows[k].idx : k \in DOMAIN processed_df.rows }
           = { raw_df.rows[i].idx : i \in { j \in DOMAIN raw_df.rows : Surviving(j) } }

(* the uploaded table with its rows in another order (read_csv labels the  *)
(* rows of a file in the order it reads them)                              *)
Permuted(df, f) ==
    [ columns |-> df.columns,
      rows    |-> [ i \in DOMAIN df.rows |->
                      [ idx |-> i - 1, cells |-> df.rows[f[i]].cells ] ] ]

SortedByName(table) ==
    \A j, k \in DOMAIN table.rows :
      j < k => TextLess(table.rows[j].cells["Full Name"].text,
                        table.rows[k].cells["Full Name"].text)

ClaimedColumns ==
    LET both    == HasColumn(raw_df, "First Name") /\ HasColumn(raw_df, "Last Name")
        dropped == IF both THEN {"First Name", "Last Name"} ELSE {}
        present == (Range(raw_df.columns) \ dropped) \cup {"Full Name", "Payment Type"}
    IN  SelectSeq(desired_columns, LAMBDA c : c \in present)
        \o SelectSeq(raw_df.columns,
                     LAMBDA c : c \notin Range(desired_columns) /\ c \notin dropped)

===========================================================================
